---- MODULE Spec2Model ----
(***************************************************************************)
(* Json2Class: the dataclass generator of src/src/generator.py.            *)
(*                                                                         *)
(* One generation run (generator.main) is modelled as a state machine      *)
(* whose steps are the calls and returns of the mutually recursive         *)
(* infer_type / generate_class, over the three dictionaries the run        *)
(* threads through every call (classes, structure_map, name_counts).       *)
(* Python strings are sequences of one-character strings, so that the      *)
(* string operations of the generator (upper, title, endswith, slicing,    *)
(* substring search, sorted) are computed and not assumed.                 *)
(***************************************************************************)
EXTENDS Integers, Sequences, FiniteSets, TLC

(***************************************************************************)
(* Bounds of the input documents.                                          *)
(***************************************************************************)
\* Deepest nesting of single-key objects below a field of the root.
MaxDepth == 3
\* Longest array in a document.
MaxLen == 2

(***************************************************************************)
(* Python strings.                                                         *)
(***************************************************************************)
LowerAlpha ==
    << "a","b","c","d","e","f","g","h","i","j","k","l","m",
       "n","o","p","q","r","s","t","u","v","w","x","y","z" >>

UpperAlpha ==
    << "A","B","C","D","E","F","G","H","I","J","K","L","M",
       "N","O","P","Q","R","S","T","U","V","W","X","Y","Z" >>

Digits == << "0","1","2","3","4","5","6","7","8","9" >>

Range(s) == { s[i] : i \in DOMAIN s }

IndexOf(c, s) == CHOOSE i \in DOMAIN s : s[i] = c

IsLower(c) == c \in Range(LowerAlpha)

IsUpper(c) == c \in Range(UpperAlpha)

IsAlpha(c) == IsLower(c) \/ IsUpper(c)

\* str.upper() on one character
Upper(c) == IF IsLower(c) THEN UpperAlpha[IndexOf(c, LowerAlpha)] ELSE c

\* str.lower() on one character
Lower(c) == IF IsUpper(c) THEN LowerAlpha[IndexOf(c, UpperAlpha)] ELSE c

\* ord() of the characters that occur in keys, names and type texts
Ord(c) ==
    IF IsLower(c) THEN 96 + IndexOf(c, LowerAlpha)
    ELSE IF IsUpper(c) THEN 64 + IndexOf(c, UpperAlpha)
    ELSE IF c \in Range(Digits) THEN 47 + IndexOf(c, Digits)
    ELSE IF c = " " THEN 32
    ELSE IF c = "[" THEN 91
    ELSE IF c = "]" THEN 93
    ELSE IF c = "_" THEN 95
    ELSE 124   \* "|"

\* Python's str.__lt__: lexicographic by code point, a proper prefix is smaller
StrLess(a, b) ==
    \E i \in 1..(Len(a) + 1) :
        /\ i - 1 <= Len(b)
        /\ \A j \in 1..(i - 1) : a[j] = b[j]
        /\ \/ (i = Len(a) + 1 /\ Len(b) >= i)
           \/ (i <= Len(a) /\ i <= Len(b) /\ Ord(a[i]) < Ord(b[i]))

\* sorted(S) for a set of strings
RECURSIVE Sorted(_)
Sorted(S) ==
    IF S = {} THEN << >>
    ELSE LET m == CHOOSE x \in S : \A y \in S \ {x} : StrLess(x, y)
         IN  << m >> \o Sorted(S \ {m})

\* sep.join(seq)
RECURSIVE Join(_, _)
Join(sep, ss) ==
    IF Len(ss) = 0 THEN << >>
    ELSE IF Len(ss) = 1 THEN ss[1]
    ELSE ss[1] \o sep \o Join(sep, Tail(ss))

\* str(n) for n >= 0
RECURSIVE IntStr(_)
IntStr(n) ==
    IF n < 10 THEN << Digits[n + 1] >>
    ELSE IntStr(n \div 10) \o << Digits[(n % 10) + 1] >>

\* a.startswith(p)
StartsWith(a, p) == Len(a) >= Len(p) /\ SubSeq(a, 1, Len(p)) = p

\* p in a
Contains(a, p) ==
    \E i \in 1..(Len(a) - Len(p) + 1) : SubSeq(a, i, i + Len(p) - 1) = p

\* text.split('_')
RECURSIVE SplitUnderscore(_)
SplitUnderscore(text) ==
    IF "_" \notin Range(text) THEN << text >>
    ELSE LET i == CHOOSE k \in DOMAIN text :
                      text[k] = "_" /\ \A j \in 1..(k - 1) : text[j] # "_"
         IN  << SubSeq(text, 1, i - 1) >>
                 \o SplitUnderscore(SubSeq(text, i + 1, Len(text)))

\* str.title(): a letter is capitalised when no letter precedes it
Title(x) ==
    [ i \in DOMAIN x |->
        IF i = 1 \/ ~IsAlpha(x[i - 1]) THEN Upper(x[i]) ELSE Lower(x[i]) ]

RECURSIVE Concat(_)
Concat(ss) == IF Len(ss) = 0 THEN << >> ELSE ss[1] \o Concat(Tail(ss))

to_pascal_case(text) ==
    IF "_" \in Range(text)
    THEN Concat([ i \in DOMAIN SplitUnderscore(text) |->
                    Title(SplitUnderscore(text)[i]) ])
    ELSE << Upper(text[1]) >> \o Tail(text)

get_singular_name(name) ==
    IF Len(name) > 0 /\ name[Len(name)] = "s"
    THEN SubSeq(name, 1, Len(name) - 1)
    ELSE name

(***************************************************************************)
(* The texts the generator writes.                                         *)
(***************************************************************************)
T_bool == << "b","o","o","l" >>
T_int == << "i","n","t" >>
T_float == << "f","l","o","a","t" >>
T_str == << "s","t","r" >>
T_Any == << "A","n","y" >>
T_Optional == << "O","p","t","i","o","n","a","l" >>
T_List == << "L","i","s","t" >>
T_ListOpen == T_List \o << "[" >>
T_OptionalAny == T_Optional \o << "[" >> \o T_Any \o << "]" >>
T_ListAny == T_ListOpen \o T_Any \o << "]" >>
T_UnionSep == << " ", "|", " " >>
T_GeneratedClass ==
    << "G","e","n","e","r","a","t","e","d","C","l","a","s","s" >>
T_dict == << "d","i","c","t" >>

(***************************************************************************)
(* JSON values.  k is the name of the Python type json.load gives the      *)
(* value (type(v).__name__), n the payload of an atom, e the entries of a  *)
(* container: (key, value) pairs in document order for an object, and      *)
(* elements (with the empty key) for an array.                             *)
(***************************************************************************)
Atom(kind, payload) == [ k |-> kind, n |-> payload, e |-> << >> ]
Entry(key, v) == [ key |-> key, val |-> v ]
Dict(entries) == [ k |-> "dict", n |-> 0, e |-> entries ]
List(items) ==
    [ k |-> "list", n |-> 0, e |-> [ i \in DOMAIN items |-> Entry(<< >>, items[i]) ] ]
Null == Atom("NoneType", 0)
EmptyDict == Dict(<< >>)
EmptyList == List(<< >>)

Keys == { << "p" >>, << "p", "s" >> }

Atoms == { Atom("int", 1), Atom("int", 2), Atom("str", 1), Null }

ChainLeaves == { Atom("int", 1), EmptyDict }

\* single-key objects nested exactly d deep
RECURSIVE Chains(_)
Chains(d) ==
    IF d = 0 THEN ChainLeaves
    ELSE { Dict(<< Entry(key, c) >>) : key \in Keys, c \in Chains(d - 1) }

Nested == UNION { Chains(d) : d \in 1..MaxDepth }

Elems ==
    { Atom("int", 1), Atom("str", 1),
      Dict(<< Entry(<< "p" >>, EmptyDict) >>),
      Dict(<< Entry(<< "p", "s" >>, Atom("int", 1)) >>),
      Dict(<< Entry(<< "p", "s" >>, Atom("int", 2)) >>) }

Lists == { List(items) : items \in UNION { [1..l -> Elems] : l \in 1..MaxLen } }

Scalars == Atoms \cup { EmptyDict, EmptyList }

\* the documents of the model: an object with one field holding any of the
\* values above, or with two fields holding scalars or nested objects
OneFieldDocs ==
    { Dict(<< Entry(key, v) >>) : key \in Keys, v \in Scalars \cup Nested \cup Lists }

TwoFieldDocs ==
    UNION { { Dict(<< Entry(k1, v1), Entry(k2, v2) >>) :
                k2 \in Keys \ {k1},
                v1 \in Scalars \cup Nested, v2 \in Scalars \cup Nested } :
            k1 \in Keys }

Docs == OneFieldDocs \cup TwoFieldDocs

\* the input file's name without its extension: one that no key of the
\* documents turns into, and one that the key "p" turns into
PlainStem == << "m", "y", "_", "d", "o", "c" >>
KeyStem == << "p" >>

\* the runs of the model: every document under the plain file name, the
\* one-field documents also under the file name that equals a key
Inputs ==
    { << d, PlainStem >> : d \in Docs } \cup { << d, KeyStem >> : d \in OneFieldDocs }

(***************************************************************************)
VARIABLES
    doc,            \* json_data: the parsed input document
    stem,           \* filename_no_ext
    pc,             \* where main is: "start", "run", "emit", "done"
    classes,        \* dict name -> class code, in insertion order
    structure_map,  \* dict signature hash -> class name
    name_counts,    \* dict class name -> 0
    stack,          \* the active calls of generate_class and of infer_type on a list
    main_class,     \* the code generate_class returned for the root
    all_code,       \* the class definitions written, in order
    resolved,       \* what infer_type returned for each object it was called on
    rt,             \* the last example run of a generated class: construct, to_dict
    prev            \* the input and the output of the first run, once main runs again

vars ==
    << doc, stem, pc, classes, structure_map, name_counts, stack, main_class,
       all_code, resolved, rt, prev >>

(***************************************************************************)
(* infer_type on an object: signature, reuse, name allocation.             *)
(***************************************************************************)
ValueOf(value, key) ==
    value.e[CHOOSE i \in DOMAIN value.e : value.e[i].key = key].val

\* json.dumps({k: type(v).__name__ for k, v in sorted(value.items())},
\* sort_keys=True): the keys in sorted order, each with the name of the type
\* of its value
structure_sig(value) ==
    LET ks == Sorted({ value.e[i].key : i \in DOMAIN value.e })
    IN  [ i \in DOMAIN ks |-> [ key |-> ks[i], tname |-> ValueOf(value, ks[i]).k ] ]

\* hashlib.md5(structure_sig.encode()).hexdigest()[:8].  The digest is used
\* only as a dictionary key; it is modelled as collision-free.
dict_hash(value) == structure_sig(value)

base_name(field_name) ==
    IF field_name = << >> THEN T_GeneratedClass
    ELSE LET b == to_pascal_case(field_name)
         IN  IF Len(b) > 0 /\ IsLower(b[1]) THEN << Upper(b[1]) >> \o Tail(b) ELSE b

ClassNames(cls) == { cls[i].name : i \in DOMAIN cls }

\* the candidate name after `counter` rounds of the while loop
Candidate(original_base, counter) ==
    IF counter = 0 THEN original_base ELSE original_base \o IntStr(counter)

\* a faulty allocation: the base name is returned whether taken or not
unique_name_unchecked(original_base, counter, cls, counts) == original_base

\* the while loop of lines 131-133, entered with `counter` rounds done
RECURSIVE unique_name(_, _, _, _)
unique_name(original_base, counter, cls, counts) ==
    IF \/ Candidate(original_base, counter) \in ClassNames(cls)
       \/ Candidate(original_base, counter) \in DOMAIN counts
    THEN unique_name(original_base, counter + 1, cls, counts)
    ELSE Candidate(original_base, counter)

\* a faulty store: the completed definition is never put into classes
DictPutDropped(cls, name, code) == cls

\* classes[name] = code on an insertion-ordered dict
DictPut(cls, name, code) ==
    IF name \in ClassNames(cls)
    THEN [ i \in DOMAIN cls |->
             IF cls[i].name = name THEN [ name |-> name, code |-> code ] ELSE cls[i] ]
    ELSE Append(cls, [ name |-> name, code |-> code ])

\* a faulty lookup: a registered signature is never found
RegisteredNever(value, smap) == FALSE

\* whether infer_type finds the signature of `value` in structure_map
Registered(value, smap) == dict_hash(value) \in DOMAIN smap

(***************************************************************************)
(* generate_class: one field, and the class code.                          *)
(***************************************************************************)
\* `    {key}: {typ}{default_str}`: the default is kept by its form and the
\* value whose repr it prints
FieldOf(key, value, typ) ==
    [ key   |-> key,
      typ   |-> IF Contains(typ, T_Optional) \/ typ = T_Any
                THEN T_Optional \o << "[" >> \o typ \o << "]" >>
                ELSE typ,
      form  |-> IF value.k \in { "str", "int", "float", "bool" } THEN "repr"
                ELSE IF value.k = "list"
                     THEN (IF Len(value.e) > 0 THEN "factory_repr" ELSE "factory_list")
                ELSE IF value.k = "dict" THEN "factory_repr"
                ELSE "none",
      value |-> value ]

\* what the field appends to post_init_conversions
ConvsOf(key, value, typ, sub_class_name) ==
    IF value.k = "list" /\ Len(value.e) > 0 /\ value.e[1].val.k = "dict"
    THEN << [ key |-> key,
              cls |-> IF StartsWith(typ, T_ListOpen)
                      THEN SubSeq(typ, 6, Len(typ) - 1) ELSE T_dict,
              is_list |-> TRUE ] >>
    ELSE IF value.k = "dict"
    THEN << [ key |-> key, cls |-> sub_class_name, is_list |-> FALSE ] >>
    ELSE << >>

ClassCode(class_name, json_data, fields, convs) ==
    [ name |-> class_name, json_data |-> json_data, fields |-> fields, convs |-> convs ]

NoClass == ClassCode(<< >>, Null, << >>, << >>)

(***************************************************************************)
(* The call stack.  A frame is a call of generate_class (kind "gen": value *)
(* is json_data, name is class_name) or of infer_type on a non-empty list  *)
(* (kind "list": name is item_name, None being the empty string, which the *)
(* code does not tell apart).  i is the field or element the loop is at.   *)
(***************************************************************************)
Frame(kind, value, name) ==
    [ kind |-> kind, value |-> value, name |-> name, i |-> 1,
      phase |-> "first", typ |-> << >>, fields |-> << >>, convs |-> << >>,
      types |-> {} ]

Top == stack[Len(stack)]

\* the loop of the top frame has a field or an element left
Calling == pc = "run" /\ Len(stack) > 0 /\ Top.i <= Len(Top.value.e)

\* the arguments of the infer_type call the top frame is making
Arg == Top.value.e[Top.i].val
ArgName == IF Top.kind = "gen" THEN Top.value.e[Top.i].key ELSE Top.name

\* the frame `f` after infer_type returned `typ` to it
Deliver(f, typ) ==
    LET key == f.value.e[f.i].key
        value == f.value.e[f.i].val
    IN  IF f.kind = "list"
        THEN [ f EXCEPT !.types = @ \cup { typ }, !.i = @ + 1 ]
        ELSE IF f.phase = "first" /\ value.k = "dict"
        THEN [ f EXCEPT !.phase = "second", !.typ = typ ]
        ELSE LET t == IF f.phase = "first" THEN typ ELSE f.typ
             IN  [ f EXCEPT !.phase = "first", !.typ = << >>, !.i = @ + 1,
                            !.fields = Append(@, FieldOf(key, value, t)),
                            !.convs = @ \o ConvsOf(key, value, t, typ) ]

Returned(stk, typ) == [ stk EXCEPT ![Len(stk)] = Deliver(stk[Len(stk)], typ) ]

Pop(stk) == SubSeq(stk, 1, Len(stk) - 1)

\* the type of a value that is no non-empty list and no object
PrimitiveType(value) ==
    IF value.k = "bool" THEN T_bool
    ELSE IF value.k = "int" THEN T_int
    ELSE IF value.k = "float" THEN T_float
    ELSE IF value.k = "str" THEN T_str
    ELSE IF value.k = "NoneType" THEN T_OptionalAny
    ELSE T_ListAny

\* sorted(S, reverse=True)
RECURSIVE SortedDescending(_)
SortedDescending(S) ==
    IF S = {} THEN << >>
    ELSE LET m == CHOOSE x \in S : \A y \in S \ {x} : StrLess(y, x)
         IN  << m >> \o SortedDescending(S \ {m})

\* a faulty rendering: the members of the union in decreasing order
ListTypeDescending(types) ==
    T_ListOpen \o Join(T_UnionSep, SortedDescending(types)) \o << "]" >>

\* what infer_type returns for a non-empty list whose elements gave `types`
ListType(types) ==
    IF Cardinality(types) = 1
    THEN T_ListOpen \o (CHOOSE t \in types : TRUE) \o << "]" >>
    ELSE T_ListOpen \o Join(T_UnionSep, Sorted(types)) \o << "]" >>

(***************************************************************************)
(* The generated code at run time: the dataclass constructor with its      *)
(* __post_init__, and to_dict.  An instance is a value of kind "obj" whose *)
(* entries are its attributes; a raised exception is the value Raised.     *)
(***************************************************************************)
Raised == Atom("error", 0)

Obj(attrs) == [ k |-> "obj", n |-> 0, e |-> attrs ]

\* the class a name is bound to once the module has been executed: the last
\* definition of that name
Bound(code, name) ==
    code[CHOOSE i \in DOMAIN code :
            /\ code[i].name = name
            /\ \A j \in DOMAIN code : code[j].name = name => j <= i]

FieldKeys(cls) == { cls.fields[i].key : i \in DOMAIN cls.fields }

KwKeys(kwargs) == { kwargs[i].key : i \in DOMAIN kwargs }

KwValue(kwargs, key) == kwargs[CHOOSE i \in DOMAIN kwargs : kwargs[i].key = key].val

\* `name(**kwargs)` in the module `code`; `active` holds the constructor
\* calls in progress, a call repeated inside itself being Python's
\* RecursionError
RECURSIVE Construct(_, _, _, _)
Construct(code, name, kwargs, active) ==
    IF \A i \in DOMAIN code : code[i].name # name THEN Raised
    ELSE IF << name, kwargs >> \in active THEN Raised
    ELSE
    LET cls == Bound(code, name)
        inner == active \cup { << name, kwargs >> }
        \* __init__: the keyword argument, or else the field's default
        Given(f) == IF f.key \in KwKeys(kwargs) THEN KwValue(kwargs, f.key) ELSE f.value
        ConvFor(key) ==
            { cls.convs[i] : i \in { j \in DOMAIN cls.convs : cls.convs[j].key = key } }
        \* __post_init__ on one attribute
        Converted(f) ==
            LET v == Given(f)
            IN  IF ConvFor(f.key) = {} THEN v
                ELSE LET c == CHOOSE x \in ConvFor(f.key) : TRUE
                     IN  IF c.is_list
                         THEN IF v.k = "list" /\ Len(v.e) > 0 /\ v.e[1].val.k = "dict"
                              THEN \* [A | B(**item) ...] raises for every item
                                   IF Contains(c.cls, T_UnionSep) THEN Raised
                                   ELSE IF \E i \in DOMAIN v.e : v.e[i].val.k # "dict"
                                   THEN Raised
                                   ELSE List([ i \in DOMAIN v.e |->
                                          Construct(code, c.cls, v.e[i].val.e, inner) ])
                              ELSE v
                         ELSE IF v.k = "dict"
                              THEN Construct(code, c.cls, v.e, inner)
                              ELSE v
        attrs == [ i \in DOMAIN cls.fields |->
                     Entry(cls.fields[i].key, Converted(cls.fields[i])) ]
        Failed(v) ==
            \/ v = Raised
            \/ v.k = "list" /\ \E i \in DOMAIN v.e : v.e[i].val = Raised
    IN  IF ~(KwKeys(kwargs) \subseteq FieldKeys(cls)) THEN Raised
        ELSE IF \E i \in DOMAIN attrs : Failed(attrs[i].val) THEN Raised
        ELSE Obj(attrs)

\* to_dict of the generated classes
RECURSIVE to_dict(_)
to_dict(self) ==
    Dict([ i \in DOMAIN self.e |->
        LET value == self.e[i].val
        IN  Entry(self.e[i].key,
              IF value.k = "list"
              THEN List([ j \in DOMAIN value.e |->
                          IF value.e[j].val.k = "obj"
                          THEN to_dict(value.e[j].val) ELSE value.e[j].val ])
              ELSE IF value.k = "obj" THEN to_dict(value)
              ELSE value) ])

\* instance = Name(); instance.to_dict()
RunExample(code, name) ==
    LET instance == Construct(code, name, << >>, {})
    IN  IF instance = Raised THEN [ ok |-> FALSE, out |-> Raised ]
        ELSE [ ok |-> TRUE, out |-> to_dict(instance) ]

NotRun == [ idx |-> 0, ok |-> TRUE, out |-> Null ]

Init ==
    /\ \E input \in Inputs : doc = input[1] /\ stem = input[2]
    /\ pc = "start"
    /\ classes = << >>
    /\ structure_map = << >>
    /\ name_counts = << >>
    /\ stack = << >>
    /\ main_class = NoClass
    /\ all_code = << >>
    /\ resolved = {}
    /\ rt = NotRun
    /\ prev = << >>

\* main, lines 252-262: the empty dictionaries, the root's name, the call
MainStart ==
    /\ pc = "start"
    /\ pc' = "run"
    /\ classes' = << >>
    /\ structure_map' = << >>
    /\ name_counts' = << >>
    /\ stack' = << Frame("gen", doc, to_pascal_case(stem)) >>
    /\ resolved' = {}
    /\ rt' = NotRun
    /\ UNCHANGED << doc, stem, main_class, all_code, prev >>

\* infer_type, lines 76-88: a primitive, null or an empty list
InferPrimitive ==
    /\ Calling
    /\ Arg.k \notin { "dict", "list" } \/ (Arg.k = "list" /\ Len(Arg.e) = 0)
    /\ stack' = Returned(stack, PrimitiveType(Arg))
    /\ UNCHANGED << doc, stem, pc, classes, structure_map, name_counts,
                    main_class, all_code, resolved, rt, prev >>

\* infer_type, lines 90-98: a non-empty list starts its loop
InferList ==
    /\ Calling
    /\ Arg.k = "list" /\ Len(Arg.e) > 0
    /\ stack' = Append(stack,
                  Frame("list", Arg,
                        IF ArgName # << >> THEN get_singular_name(ArgName) ELSE << >>))
    /\ UNCHANGED << doc, stem, pc, classes, structure_map, name_counts,
                    main_class, all_code, resolved, rt, prev >>

\* infer_type, lines 100-104: the list's loop is over
ListReturn ==
    /\ pc = "run" /\ Len(stack) > 0
    /\ Top.kind = "list" /\ Top.i > Len(Top.value.e)
    /\ stack' = Returned(Pop(stack), ListType(Top.types))
    /\ UNCHANGED << doc, stem, pc, classes, structure_map, name_counts,
                    main_class, all_code, resolved, rt, prev >>

\* infer_type, lines 110-118: an object whose signature is registered
InferDictReuse ==
    /\ Calling
    /\ Arg.k = "dict"
    /\ Registered(Arg, structure_map)
    /\ stack' = Returned(stack, structure_map[dict_hash(Arg)])
    /\ resolved' = resolved \cup
                     { [ value |-> Arg, name |-> structure_map[dict_hash(Arg)] ] }
    /\ UNCHANGED << doc, stem, pc, classes, structure_map, name_counts,
                    main_class, all_code, rt, prev >>

\* infer_type, lines 110-141: a new signature gets a name and is registered,
\* and generate_class is called on the object
InferDictNew ==
    /\ Calling
    /\ Arg.k = "dict"
    /\ ~Registered(Arg, structure_map)
    /\ LET class_name == unique_name(base_name(ArgName), 0, classes, name_counts)
       IN  /\ structure_map' = (dict_hash(Arg) :> class_name) @@ structure_map
           /\ name_counts' = IF class_name \in DOMAIN name_counts THEN name_counts
                             ELSE (class_name :> 0) @@ name_counts
           /\ stack' = Append(stack, Frame("gen", Arg, class_name))
    /\ UNCHANGED << doc, stem, pc, classes, main_class, all_code, resolved, rt, prev >>

\* generate_class returns to infer_type, which stores the code and returns
\* the name (lines 207-223, 141-142)
GenReturn ==
    /\ pc = "run" /\ Len(stack) > 1
    /\ Top.kind = "gen" /\ Top.i > Len(Top.value.e)
    /\ classes' = DictPut(classes, Top.name,
                          ClassCode(Top.name, Top.value, Top.fields, Top.convs))
    /\ stack' = Returned(Pop(stack), Top.name)
    /\ resolved' = resolved \cup { [ value |-> Top.value, name |-> Top.name ] }
    /\ UNCHANGED << doc, stem, pc, structure_map, name_counts, main_class,
                    all_code, rt, prev >>

\* generate_class returns the root's code to main (line 262)
MainReturn ==
    /\ pc = "run" /\ Len(stack) = 1
    /\ Top.kind = "gen" /\ Top.i > Len(Top.value.e)
    /\ main_class' = ClassCode(Top.name, Top.value, Top.fields, Top.convs)
    /\ stack' = << >>
    /\ pc' = "emit"
    /\ UNCHANGED << doc, stem, classes, structure_map, name_counts, all_code,
                    resolved, rt, prev >>

\* main, lines 265-277: the classes in insertion order, then the root
MainEmit ==
    /\ pc = "emit"
    /\ all_code' = [ i \in DOMAIN classes |-> classes[i].code ] \o << main_class >>
    /\ pc' = "done"
    /\ UNCHANGED << doc, stem, classes, structure_map, name_counts, stack,
                    main_class, resolved, rt, prev >>

\* a generated class is constructed from its defaults and serialised, once
\* per generated module, as main.py does with the root
Instantiate ==
    /\ pc = "done"
    /\ rt = NotRun
    /\ \E i \in DOMAIN all_code :
         rt' = [ idx |-> i,
                 ok  |-> RunExample(all_code, all_code[i].name).ok,
                 out |-> RunExample(all_code, all_code[i].name).out ]
    /\ UNCHANGED << doc, stem, pc, classes, structure_map, name_counts, stack,
                    main_class, all_code, resolved, prev >>

\* the bijections of 1..n
Perms(n) == { f \in [1..n -> 1..n] : \A a, b \in 1..n : f[a] = f[b] => a = b }

\* the list `value` with its elements in the order f
Reorder(value, f) == List([ j \in DOMAIN value.e |-> value.e[f[j]].val ])

\* main is run a second time, on the document with the elements of one of
\* its arrays in another order; the first output is kept for comparison
MainRerun ==
    /\ pc = "done"
    /\ prev = << >>
    /\ \E i \in DOMAIN doc.e :
         /\ doc.e[i].val.k = "list"
         /\ \E f \in Perms(Len(doc.e[i].val.e)) :
              /\ Reorder(doc.e[i].val, f) # doc.e[i].val
              /\ doc' = [ doc EXCEPT !.e[i].val = Reorder(@, f) ]
    /\ prev' = Append(prev, [ doc |-> doc, code |-> all_code ])
    /\ pc' = "start"
    /\ UNCHANGED << stem, classes, structure_map, name_counts, stack, main_class,
                    all_code, resolved, rt >>

Next ==
    \/ MainStart
    \/ InferPrimitive
    \/ InferList
    \/ ListReturn
    \/ InferDictReuse
    \/ InferDictNew
    \/ GenReturn
    \/ MainReturn
    \/ MainEmit
    \/ Instantiate
    \/ MainRerun

Spec == Init /\ [][Next]_vars

(***************************************************************************)
(* Notions the properties are stated with.                                 *)
(***************************************************************************)
\* the full recursive structural shape of a value: the kinds at every depth,
\* the payloads of the atoms and the order of keys and elements left out
RECURSIVE Shape(_)
Shape(v) ==
    [ k |-> v.k,
      e |-> { [ key |-> v.e[i].key, sh |-> Shape(v.e[i].val) ] : i \in DOMAIN v.e } ]

RECURSIVE HasObject(_)
HasObject(v) ==
    v.k = "dict" \/ \E i \in DOMAIN v.e : HasObject(v.e[i].val)

IsIdChar(c) == IsAlpha(c) \/ c \in Range(Digits) \/ c = "_"

\* the identifiers in a type text
Identifiers(t) ==
    { SubSeq(t, a, b) : << a, b >> \in
        { x \in (DOMAIN t) \X (DOMAIN t) :
            /\ x[1] <= x[2]
            /\ \A j \in x[1]..x[2] : IsIdChar(t[j])
            /\ x[1] = 1 \/ ~IsIdChar(t[x[1] - 1])
            /\ x[2] = Len(t) \/ ~IsIdChar(t[x[2] + 1]) } }

TypingNames == { T_bool, T_int, T_float, T_str, T_Any, T_Optional, T_List }

\* the record names the field types of a class definition mention
RefNames(cls) ==
    UNION { Identifiers(cls.fields[i].typ) : i \in DOMAIN cls.fields } \ TypingNames

CodeNames(code) == { code[i].name : i \in DOMAIN code }

\* text.split(' | ')
RECURSIVE SplitUnion(_)
SplitUnion(t) ==
    IF ~Contains(t, T_UnionSep) THEN << t >>
    ELSE LET i == CHOOSE k \in 1..Len(t) :
                    /\ k + 2 <= Len(t)
                    /\ SubSeq(t, k, k + 2) = T_UnionSep
                    /\ \A j \in 1..(k - 1) : SubSeq(t, j, j + 2) # T_UnionSep
         IN  << SubSeq(t, 1, i - 1) >> \o SplitUnion(SubSeq(t, i + 3, Len(t)))

\* the field of the root definition for the i-th key of the document
RootField(code, i) == code[Len(code)].fields[i]

\* the names of the generate_class calls in progress below the root
InProgress == { stack[k].name : k \in { j \in DOMAIN stack : j > 1 /\ stack[j].kind = "gen" } }

C2_FullShapeKey ==
    \A r1, r2 \in resolved :
        r1.name = r2.name => Shape(r1.value) = Shape(r2.value)

(***************************************************************************)
(* C3.  In the emitted artifact a definition that references another      *)
(* record comes after that record's definition, and the root comes last.   *)
(***************************************************************************)
C3_DefinedBeforeUse ==
    pc = "done" =>
        /\ all_code[Len(all_code)] = main_class
        /\ \A i \in DOMAIN all_code :
             \A n \in RefNames(all_code[i]) \ { all_code[i].name } :
                \E j \in 1..(i - 1) : all_code[j].name = n

(***************************************************************************)
(* C4.  Constructing a generated record from its captured defaults         *)
(* succeeds, and to_dict of the instance equals the example substructure   *)
(* the record was generated from.                                          *)
(***************************************************************************)
C4_RoundTrip ==
    rt.idx # 0 => rt.ok /\ rt.out = all_code[rt.idx].json_data

(***************************************************************************)
(* C5.  No record name is allocated twice in a run: definitions of         *)
(* different signatures have different names, and an allocated name stays  *)
(* reserved.                                                               *)
(***************************************************************************)
C5_UniqueNames ==
    /\ \A s1, s2 \in DOMAIN structure_map :
         structure_map[s1] = structure_map[s2] => s1 = s2
    /\ \A i, j \in DOMAIN classes : classes[i].name = classes[j].name => i = j
    /\ \A s \in DOMAIN structure_map : structure_map[s] \in DOMAIN name_counts
    /\ \A r \in resolved : r.name \in DOMAIN name_counts
    /\ \A i \in DOMAIN classes : classes[i].name \in DOMAIN name_counts

\* two definitions whose names derive from one base name
C5_Witness ==
    /\ pc = "done"
    /\ \E i, j \in DOMAIN classes :
         /\ i # j
         /\ \E k \in 1..Len(classes) : classes[j].name = classes[i].name \o IntStr(k)

(***************************************************************************)
(* C6.  An allocation returns the base name unchanged or the base name     *)
(* followed by an integer suffix that starts at 2.                         *)
(***************************************************************************)
C6_SuffixStartsAtTwo ==
    [][ (Calling /\ Arg.k = "dict" /\ dict_hash(Arg) \notin DOMAIN structure_map) =>
          LET base == base_name(ArgName)
              name == structure_map'[dict_hash(Arg)]
          IN  IF base \notin DOMAIN name_counts /\ base \notin ClassNames(classes)
              THEN name = base
              ELSE \E k \in 2..(Cardinality(DOMAIN name_counts) + 2) :
                      name = base \o IntStr(k) ]_vars

(***************************************************************************)
(* C7.  The type of a non-empty array is List[...] of the distinct member  *)
(* type texts in increasing lexical order (a single member when all        *)
(* elements infer to one type), and reordering the elements of the array   *)
(* leaves the rendered type unchanged.                                     *)
(***************************************************************************)
\* the type infer_type gave an element that is no non-empty list
ElemType(v) ==
    IF v.k = "dict" THEN structure_map[dict_hash(v)] ELSE PrimitiveType(v)

\* the root's fields that hold a non-empty array of such elements
ArrayFields ==
    { i \in DOMAIN doc.e :
        /\ doc.e[i].val.k = "list"
        /\ Len(doc.e[i].val.e) > 0
        /\ \A j \in DOMAIN doc.e[i].val.e :
             doc.e[i].val.e[j].val.k = "list" => Len(doc.e[i].val.e[j].val.e) = 0 }

SortedUnion(i) ==
    LET typ == RootField(all_code, i).typ
        members == SplitUnion(SubSeq(typ, 6, Len(typ) - 1))
    IN  /\ StartsWith(typ, T_ListOpen)
        /\ typ[Len(typ)] = "]"
        /\ \A a, b \in DOMAIN members : a < b => StrLess(members[a], members[b])
        /\ Range(members) = { ElemType(doc.e[i].val.e[j].val) : j \in DOMAIN doc.e[i].val.e }

SameAsEarlierRun(i) ==
    RootField(all_code, i).typ = RootField(prev[Len(prev)].code, i).typ

\* C7 as stated: the members are in lexical order, and every reordering of
\* the array gives the same rendered type
C7_AnyPermutation ==
    pc = "done" =>
        \A i \in ArrayFields :
            /\ SortedUnion(i)
            /\ prev # << >> => SameAsEarlierRun(i)

\* C7 as amended: the members are in lexical order, and every reordering of
\* an array that holds no object gives the same rendered type
C7_ObjectFreePermutation ==
    pc = "done" =>
        \A i \in ArrayFields :
            /\ SortedUnion(i)
            /\ (prev # << >> /\ ~HasObject(doc.e[i].val)) => SameAsEarlierRun(i)

\* a reordered array of an integer and a string has been generated again
C7_Witness ==
    /\ pc = "done"
    /\ prev # << >>
    /\ \E i \in ArrayFields :
         /\ ~HasObject(doc.e[i].val)
         /\ prev[Len(prev)].doc.e[i].val # doc.e[i].val
         /\ Contains(RootField(all_code, i).typ, T_UnionSep)

(***************************************************************************)
(* C8.  When the run completes, every record name in the type of a field   *)
(* of an emitted definition has a definition among the emitted records,    *)
(* also a name that was handed out while its definition was being built.   *)
(***************************************************************************)
C8_NoDanglingReference ==
    /\ pc = "done" =>
         \A i \in DOMAIN all_code : RefNames(all_code[i]) \subseteq CodeNames(all_code)
    /\ pc \in { "run", "emit", "done" } =>
         \A r \in resolved : r.name \in ClassNames(classes) \cup InProgress

\* a definition mentions a record whose definition was completed after it
C8_Witness ==
    /\ pc = "done"
    /\ \E i, j \in DOMAIN all_code :
         /\ i < j /\ j < Len(all_code)
         /\ all_code[j].name \in RefNames(all_code[i])

(***************************************************************************)
(* C9.  Inferring an object whose signature is registered returns the      *)
(* registered name and changes neither the signature map nor the used      *)
(* names nor the definitions, and calls generate_class no more; the second *)
(* inference generate_class makes on an object field is such a call.       *)
(***************************************************************************)
C9_ReuseChangesNothing ==
    [][ /\ (Calling /\ Top.kind = "gen" /\ Top.phase = "second") =>
              dict_hash(Arg) \in DOMAIN structure_map
        /\ (Calling /\ Arg.k = "dict" /\ dict_hash(Arg) \in DOMAIN structure_map) =>
              /\ structure_map' = structure_map
              /\ name_counts' = name_counts
              /\ classes' = classes
              /\ Len(stack') = Len(stack)
              /\ [ value |-> Arg, name |-> structure_map[dict_hash(Arg)] ] \in resolved'
      ]_vars

\* a name was returned for a signature whose definition is still being built
C9_Witness ==
    /\ pc = "run"
    /\ \E r \in resolved : r.name \in InProgress

(***************************************************************************)
(* C10.  The root definition's name differs from the name of every         *)
(* generated nested record.                                                *)
(***************************************************************************)
C10_RootNameDistinct ==
    pc = "done" =>
        \A i \in 1..(Len(all_code) - 1) :
            all_code[i].name # all_code[Len(all_code)].name
====
